---- MODULE Spec2Model ----
(***************************************************************************)
(* Buy vs Rent simulator (src/app.py): the script's module-level globals   *)
(* are the state, and each section of the script (EMI, amortization loop,  *)
(* one scenario, the growth slider, one holding-period sweep iteration) is *)
(* one action.                                                             *)
(*                                                                         *)
(* Numbers.  Money is an integer number of rupees.  Fractions, rates and   *)
(* growth factors are fixed-point integers with Scale units to 1.0, and    *)
(* every multiplication or division that leaves the integers rounds down,  *)
(* as a float operation rounds.  Percentages entered in the widgets are    *)
(* whole percents.                                                         *)
(***************************************************************************)
EXTENDS Integers, Sequences, FiniteSets, TLC

VARIABLES
    \* sidebar inputs (lines 13-40)
    price, down_pct, loan_rate, tenure, rent0, rent_growth, house_growth,
    inv_return, inflation, disc, exit_year, buy_commission, sell_commission,
    maintenance_pct, tax_rate, interest_deduction, principal_deduction,
    \* module-level results
    loan_amt, r, n, emi, balance, sched, rows, b, g, buy_vals, rent_vals,
    \* arguments and locals of the last compute_npv / tax_saving call
    arg_hg, arg_rg, cf_buy, cf_rent, ts_interest, ts_principal, ts_result,
    \* position in the script
    pc

inputs == <<price, down_pct, loan_rate, tenure, rent0, rent_growth, house_growth,
            inv_return, inflation, disc, exit_year, buy_commission,
            sell_commission, maintenance_pct, tax_rate, interest_deduction,
            principal_deduction>>

loanvars == <<loan_amt, r, n, emi, balance, sched>>

callvars == <<arg_hg, arg_rg, cf_buy, cf_rent, ts_interest, ts_principal, ts_result>>

vars == <<inputs, loanvars, callvars, rows, b, g, buy_vals, rent_vals, pc>>

(***************************************************************************)
(* Bounds of the model and the values the widgets are given.               *)
(***************************************************************************)
Scale == 10000

MonthsPerYear == 12

MinExitYear == 3

MaxExitInput == 4

LastSweepYear == 25

SliderMin == -5

SliderMax == 15

DefaultPrice == 8000000

DefaultDownPct == 2000

DefaultRent0 == 25000

DefaultInvReturn == 10

DefaultTenure == 20

DefaultGrowth == 5

DefaultDisc == 8

DefaultTaxRate == 30

DefaultCommission == 1

DefaultMaintenancePct == 1

DefaultInterestDeduction == 200000

DefaultPrincipalDeduction == 150000

TenureValues == {-1, 0, 2, DefaultTenure}

LoanRateValues == {-6, 6}

HouseGrowthValues == {-200, 0, DefaultGrowth}

RentGrowthValues == {0, DefaultGrowth}

InflationValues == {0, DefaultGrowth}

DiscValues == {0, DefaultDisc}

TaxRateValues == {0, DefaultTaxRate}

SliderValues == {SliderMin, SliderMax}

(***************************************************************************)
(* Arithmetic.                                                             *)
(***************************************************************************)
min(a, c) == IF a <= c THEN a ELSE c

\* floor(a * c / d) for d # 0, computed without forming a * c
MulDiv(a, c, d) ==
    IF d > 0 THEN (a \div d) * c + ((a % d) * c) \div d
    ELSE ((-a) \div (-d)) * c + (((-a) % (-d)) * c) \div (-d)

\* x ** k for a fixed-point x and an integer k, by repeated squaring
\* (negative k: the reciprocal)
RECURSIVE Pow(_, _)
Pow(x, k) ==
    IF k = 0 THEN Scale
    ELSE IF k < 0 THEN (Scale * Scale) \div Pow(x, -k)
    ELSE IF k % 2 = 0 THEN LET h == Pow(x, k \div 2) IN MulDiv(h, h, Scale)
    ELSE MulDiv(Pow(x, k - 1), x, Scale)

\* 1 + pct/100 as a fixed-point factor
OnePlusPct(pct) == Scale + (pct * Scale) \div 100

RECURSIVE SumSeq(_)
SumSeq(s) == IF s = <<>> THEN 0 ELSE Head(s) + SumSeq(Tail(s))

(***************************************************************************)
(* EMI (lines 46-49).                                                      *)
(***************************************************************************)
\* loan_amt = price*(1-down_pct)
LoanAmt == MulDiv(price, Scale - down_pct, Scale)

\* r = loan_rate/100/12
MonthlyRate == ((loan_rate * Scale) \div 100) \div MonthsPerYear

\* n = tenure*12
Months == tenure * MonthsPerYear

\* (1+r)**n
Compound == Pow(Scale + MonthlyRate, Months)

\* emi = loan_amt*r*(1+r)**n/((1+r)**n-1); the caller excludes a zero divisor
Emi ==
    MulDiv(MulDiv(MulDiv(LoanAmt, MonthlyRate, Scale), Compound, Scale),
           Scale, Compound - Scale)

(***************************************************************************)
(* Amortization loop (lines 57-69).  A row's Year is m/12, held as the     *)
(* number of twelfths m.                                                   *)
(***************************************************************************)
\* a slip: the equity taken from the balance before the payment
AmortRowStaleEquity(bal, m, rate, pay) ==
    LET interest == MulDiv(bal, rate, Scale)
        principal == pay - interest
        newbal == bal - principal
        equity == price - bal
    IN  [Year |-> m, Interest |-> interest, Principal |-> principal,
         Balance |-> newbal, Equity |-> equity]

AmortRow(bal, m, rate, pay) ==
    LET interest == MulDiv(bal, rate, Scale)
        principal == pay - interest
        newbal == bal - principal
        equity == price - newbal
    IN  [Year |-> m, Interest |-> interest, Principal |-> principal,
         Balance |-> newbal, Equity |-> equity]

\* the rows of months m..last, starting from balance bal, at monthly rate
\* rate and monthly payment pay
RECURSIVE Schedule(_, _, _, _, _)
Schedule(bal, m, last, rate, pay) ==
    IF m > last THEN <<>>
    ELSE LET row == AmortRow(bal, m, rate, pay)
         IN  <<row>> \o Schedule(row.Balance, m + 1, last, rate, pay)

(***************************************************************************)
(* Tax benefit (lines 75-78).                                              *)
(***************************************************************************)
\* a slip: the deduction limits left out
TaxSavingUncapped(interest, principal, icap, pcap, rate) ==
    ((interest + principal) * rate) \div 100

TaxSavingAt(interest, principal, icap, pcap, rate) ==
    LET interest_claim == min(interest, icap)
        principal_claim == min(principal, pcap)
    IN  ((interest_claim + principal_claim) * rate) \div 100

tax_saving(interest, principal) ==
    TaxSavingAt(interest, principal, interest_deduction, principal_deduction,
                tax_rate)

(***************************************************************************)
(* Cash-flow generator (lines 84-124).  sch and horizon are the globals    *)
(* sched and exit_year as the call finds them.                             *)
(***************************************************************************)
\* Series.between(left, right): both ends inclusive; year is in twelfths
between(year, left, right) ==
    left * MonthsPerYear <= year /\ year <= right * MonthsPerYear

\* sched[sched["Year"].between(y-1,y)]
YearRows(sch, y) == SelectSeq(sch, LAMBDA row : between(row.Year, y - 1, y))

\* sched[...]["Interest"].sum() and sched[...]["Principal"].sum()
SumInterest(sel) == SumSeq([i \in 1..Len(sel) |-> sel[i].Interest])

SumPrincipal(sel) == SumSeq([i \in 1..Len(sel) |-> sel[i].Principal])

interest_year(sch, y) == SumInterest(YearRows(sch, y))

principal_year(sch, y) == SumPrincipal(YearRows(sch, y))

downpayment == MulDiv(price, down_pct, Scale)

buy_comm == (price * buy_commission) \div 100

maintenance == MulDiv(price, (maintenance_pct * Scale) \div 100, Scale)

\* a slip: the growth rate applied with the wrong sign
ResaleShrinking(hg, horizon) ==
    LET future_price == MulDiv(price, Pow(OnePlusPct(-hg), horizon), Scale)
    IN  MulDiv(future_price, Scale - (sell_commission * Scale) \div 100, Scale)

Resale(hg, horizon) ==
    LET future_price == MulDiv(price, Pow(OnePlusPct(hg), horizon), Scale)
    IN  MulDiv(future_price, Scale - (sell_commission * Scale) \div 100, Scale)

Invest(horizon) ==
    MulDiv(downpayment, Pow(OnePlusPct(inv_return), horizon), Scale)

CfBuy(hg, sch, horizon) ==
    LET yearly == [y \in 1..horizon |->
                     LET sel == YearRows(sch, y)
                     IN  -(emi * 12 + maintenance)
                         + tax_saving(SumInterest(sel), SumPrincipal(sel))]
        \* cf_buy[-1] += resale
        last == Len(yearly)
    IN  <<-downpayment - buy_comm>>
        \o [y \in 1..horizon |->
              IF y = last THEN yearly[y] + Resale(hg, horizon) ELSE yearly[y]]

CfRent(rg, horizon) ==
    LET yearly == [y \in 1..horizon |->
                     -(MulDiv(rent0, Pow(OnePlusPct(rg), y), Scale) * 12)]
        \* cf_rent[-1] += invest
        last == Len(yearly)
    IN  [y \in 1..horizon |->
          IF y = last THEN yearly[y] + Invest(horizon) ELSE yearly[y]]

\* sum(cf/((1+rate/100)**i) for i, cf in enumerate(cfs)); rate is a
\* fixed-point percentage and enumerate counts from 0
npv(rate, cfs) ==
    SumSeq([k \in 1..Len(cfs) |->
              MulDiv(cfs[k], Scale, Pow(Scale + rate \div 100, k - 1))])

\* a slip: the "-1" of the Fisher equation left out
real_disc_gross ==
    MulDiv(OnePlusPct(disc), Scale, OnePlusPct(inflation)) * 100

\* real_disc = ((1+disc/100)/(1+inflation/100)-1)*100
real_disc ==
    (MulDiv(OnePlusPct(disc), Scale, OnePlusPct(inflation)) - Scale) * 100

\* the body of compute_npv: its two series and the pair it returns
NpvLocals(hg, rg, sch, horizon) ==
    LET buy == CfBuy(hg, sch, horizon)
        rent == CfRent(rg, horizon)
    IN  [cf_buy |-> buy, cf_rent |-> rent,
         result |-> <<npv(real_disc, buy), npv(real_disc, rent)>>]

compute_npv(hg, rg, sch, horizon) == NpvLocals(hg, rg, sch, horizon).result

(***************************************************************************)
(* The script, top to bottom.                                              *)
(***************************************************************************)
\* The widgets' values.  Either the loan terms range over their values with
\* the market at its defaults, or the market ranges with the default loan.
LoanInputs ==
    /\ loan_rate \in LoanRateValues
    /\ tenure \in TenureValues
    /\ rent_growth = DefaultGrowth
    /\ house_growth = DefaultGrowth
    /\ inflation = DefaultGrowth
    /\ disc = DefaultDisc
    /\ tax_rate = DefaultTaxRate

MarketInputs ==
    /\ loan_rate \in {x \in LoanRateValues : x > 0}
    /\ tenure = DefaultTenure
    /\ rent_growth \in RentGrowthValues
    /\ house_growth \in HouseGrowthValues
    /\ inflation \in InflationValues
    /\ disc \in DiscValues
    /\ tax_rate \in TaxRateValues

Init ==
    /\ price = DefaultPrice
    /\ down_pct = DefaultDownPct
    /\ rent0 = DefaultRent0
    /\ inv_return = DefaultInvReturn
    /\ exit_year \in MinExitYear..MaxExitInput
    /\ buy_commission = DefaultCommission
    /\ sell_commission = DefaultCommission
    /\ maintenance_pct = DefaultMaintenancePct
    /\ interest_deduction = DefaultInterestDeduction
    /\ principal_deduction = DefaultPrincipalDeduction
    /\ (MarketInputs \/ LoanInputs)
    /\ loan_amt = 0 /\ r = 0 /\ n = 0 /\ emi = 0 /\ balance = 0
    /\ sched = <<>> /\ rows = <<>>
    /\ b = 0 /\ g = 0 /\ buy_vals = <<>> /\ rent_vals = <<>>
    /\ arg_hg = 0 /\ arg_rg = 0 /\ cf_buy = <<>> /\ cf_rent = <<>>
    /\ ts_interest = 0 /\ ts_principal = 0 /\ ts_result = 0
    /\ pc = "emi"

\* lines 46-49; a zero divisor raises ZeroDivisionError and the script stops
ComputeEmi ==
    /\ pc = "emi"
    /\ loan_amt' = LoanAmt
    /\ r' = MonthlyRate
    /\ n' = Months
    /\ IF Compound - Scale = 0
       THEN /\ pc' = "error"
            /\ emi' = emi
       ELSE /\ pc' = "amortize"
            /\ emi' = Emi
    /\ UNCHANGED <<inputs, balance, sched, callvars, rows, b, g, buy_vals,
                   rent_vals>>

\* lines 57-69: the whole loop over m in 1..exit_year*12
Amortize ==
    /\ pc = "amortize"
    /\ LET built == Schedule(loan_amt, 1, exit_year * MonthsPerYear, r, emi)
       IN  /\ sched' = built
           /\ balance' = built[Len(built)].Balance
    /\ pc' = "scenarios"
    /\ UNCHANGED <<inputs, loan_amt, r, n, emi, callvars, rows, b, g,
                   buy_vals, rent_vals>>

\* b,r = compute_npv(hg,rg) with the globals as they are after the step:
\* the call reads sched and the (possibly just assigned) exit_year
Call(house, rent, horizon) ==
    LET locals == NpvLocals(house, rent, sched, horizon)
        interest == interest_year(sched, horizon)
        principal == principal_year(sched, horizon)
    IN  /\ arg_hg' = house
        /\ arg_rg' = rent
        /\ b' = locals.result[1]
        /\ r' = locals.result[2]
        /\ cf_buy' = locals.cf_buy
        /\ cf_rent' = locals.cf_rent
        /\ ts_interest' = interest
        /\ ts_principal' = principal
        /\ ts_result' = tax_saving(interest, principal)

\* lines 130-134, in the dict's order
ScenarioName(k) == <<"Base", "Boom", "Crash">>[k]

ScenarioHg(k) == <<house_growth, house_growth + 3, house_growth - 3>>[k]

ScenarioRg(k) == <<rent_growth, rent_growth + 2, rent_growth - 1>>[k]

\* lines 136-139: one iteration of the scenario loop
Scenario ==
    /\ pc = "scenarios"
    /\ LET k == Len(rows) + 1
       IN  /\ Call(ScenarioHg(k), ScenarioRg(k), exit_year)
           /\ rows' = Append(rows, <<ScenarioName(k), b', r', b' - r'>>)
           /\ pc' = IF k = 3 THEN "slider" ELSE "scenarios"
    /\ UNCHANGED <<inputs, loan_amt, n, emi, balance, sched, g, buy_vals,
                   rent_vals>>

\* lines 153-155: the slider refuses a default outside its range (an
\* exception); otherwise g is any value the user leaves it at
Slider ==
    /\ pc = "slider"
    /\ IF house_growth < SliderMin \/ house_growth > SliderMax
       THEN /\ pc' = "error"
            /\ UNCHANGED <<g, b, r, callvars>>
       ELSE /\ \E v \in SliderValues \cup {house_growth} :
                 /\ g' = v
                 /\ Call(v, rent_growth, exit_year)
            /\ pc' = "sweep"
    /\ UNCHANGED <<inputs, loan_amt, n, emi, balance, sched, rows, buy_vals,
                   rent_vals>>

\* lines 182-186: one iteration of the holding-period loop
Sweep ==
    /\ pc = "sweep"
    /\ LET y == MinExitYear + Len(buy_vals)
       IN  /\ exit_year' = y
           /\ Call(house_growth, rent_growth, y)
           /\ buy_vals' = Append(buy_vals, b')
           /\ rent_vals' = Append(rent_vals, r')
           /\ pc' = IF y = LastSweepYear THEN "done" ELSE "sweep"
    /\ UNCHANGED <<price, down_pct, loan_rate, tenure, rent0, rent_growth,
                   house_growth, inv_return, inflation, disc, buy_commission,
                   sell_commission, maintenance_pct, tax_rate,
                   interest_deduction, principal_deduction,
                   loan_amt, n, emi, balance, sched, rows, g>>

Next == ComputeEmi \/ Amortize \/ Scenario \/ Slider \/ Sweep

Spec == Init /\ [][Next]_vars

(***************************************************************************)
(* tax_saving on its own: the caps and the rate are drawn from small sets  *)
(* and the function is applied to drawn yearly amounts, call after call    *)
(* (a call stands for one year of the buy path).                           *)
(***************************************************************************)
TaxAmounts == {0, 90000, 150000, 200000, 260000, 410000}

TaxCaps == {0, DefaultPrincipalDeduction, DefaultInterestDeduction}

TaxRates == {0, 10, DefaultTaxRate}

InitTax ==
    /\ price = DefaultPrice
    /\ down_pct = DefaultDownPct
    /\ loan_rate \in {x \in LoanRateValues : x > 0}
    /\ tenure = DefaultTenure
    /\ rent0 = DefaultRent0
    /\ rent_growth = DefaultGrowth
    /\ house_growth = DefaultGrowth
    /\ inv_return = DefaultInvReturn
    /\ inflation = DefaultGrowth
    /\ disc = DefaultDisc
    /\ exit_year = MinExitYear
    /\ buy_commission = DefaultCommission
    /\ sell_commission = DefaultCommission
    /\ maintenance_pct = DefaultMaintenancePct
    /\ tax_rate \in TaxRates
    /\ interest_deduction \in TaxCaps
    /\ principal_deduction \in TaxCaps
    /\ loan_amt = 0 /\ r = 0 /\ n = 0 /\ emi = 0 /\ balance = 0
    /\ sched = <<>> /\ rows = <<>>
    /\ b = 0 /\ g = 0 /\ buy_vals = <<>> /\ rent_vals = <<>>
    /\ arg_hg = 0 /\ arg_rg = 0 /\ cf_buy = <<>> /\ cf_rent = <<>>
    /\ ts_interest = 0 /\ ts_principal = 0 /\ ts_result = 0
    /\ pc = "tax"

\* tax = tax_saving(interest_year, principal_year)
TaxCall ==
    /\ pc \in {"tax", "taxed"}
    /\ \E interest \in TaxAmounts, principal \in TaxAmounts :
          /\ ts_interest' = interest
          /\ ts_principal' = principal
          /\ ts_result' = tax_saving(interest, principal)
    /\ pc' = "taxed"
    /\ UNCHANGED <<inputs, loanvars, arg_hg, arg_rg, cf_buy, cf_rent, rows, b,
                   g, buy_vals, rent_vals>>

NextTax == TaxCall

TaxSpec == InitTax /\ [][NextTax]_vars

(***************************************************************************)
(* Properties.                                                             *)
(***************************************************************************)
\* compute_npv has been called at least once
Called == cf_buy # <<>>

\* the amortization schedule the scheduler builds for a holding horizon
ScheduleFor(horizon) ==
    Schedule(loan_amt, 1, horizon * MonthsPerYear, MonthlyRate, emi)

\* C1: the pair the holding-period sweep produces for horizon H equals the
\* pair of the full pipeline run for H (schedule built for H, then cash
\* flows, then NPV), whatever horizon the schedule at hand was built for.
SweepEqualsPipeline ==
    (pc \in {"sweep", "done"} /\ buy_vals # <<>>) =>
        <<b, r>> = compute_npv(house_growth, rent_growth,
                               ScheduleFor(exit_year), exit_year)

\* the interest (f = 1) or principal (f = 2) of months 12(y-1)+1..12y
RECURSIVE MonthWindowSum(_, _, _, _)
MonthWindowSum(sch, f, m, last) ==
    IF m > last THEN 0
    ELSE (IF f = 1 THEN sch[m].Interest ELSE sch[m].Principal)
         + MonthWindowSum(sch, f, m + 1, last)

\* C2: for every year y of the horizon the annual interest and principal
\* compute_npv uses are the sums over months 12(y-1)+1..12y, twelve rows
\* a year, every row in exactly one year.
AnnualAggregateIsYearWindow ==
    (Called /\ Len(sched) >= exit_year * MonthsPerYear) =>
        \A y \in 1..exit_year :
            /\ Len(YearRows(sched, y)) = MonthsPerYear
            /\ interest_year(sched, y)
                 = MonthWindowSum(sched, 1, MonthsPerYear * (y - 1) + 1,
                                  MonthsPerYear * y)
            /\ principal_year(sched, y)
                 = MonthWindowSum(sched, 2, MonthsPerYear * (y - 1) + 1,
                                  MonthsPerYear * y)

\* C3: both series of a compute_npv call are indexed 0..horizon, index 0
\* holding the upfront outlay (buy) or zero (rent), so that year y sits at
\* index y and is discounted by (1+real)^y on both paths.
SeriesIndexedFromZero ==
    Called =>
        /\ Len(cf_buy) = exit_year + 1
        /\ Len(cf_rent) = exit_year + 1
        /\ cf_buy[1] = -downpayment - buy_comm
        /\ cf_rent[1] = 0
        /\ b = npv(real_disc, cf_buy)
        /\ r = npv(real_disc, cf_rent)

\* C4: a non-positive tenure or a negative loan rate is rejected before the
\* amortization loop: the run is at its start or has failed, and there are
\* no amortization rows, no NPV and no scenario results.
InvalidTermsRejected ==
    (tenure <= 0 \/ loan_rate < 0) =>
        /\ pc \in {"emi", "error"}
        /\ sched = <<>>
        /\ rows = <<>>
        /\ buy_vals = <<>>
        /\ ~Called

\* C8: evaluating the scenarios, the slider point and the sweep leaves the
\* holding horizon and the monthly loan rate as they were.
EvaluationKeepsInputs ==
    [][(pc \in {"scenarios", "slider", "sweep"})
          => (exit_year' = exit_year /\ r' = r)]_vars

\* C10: with a positive tenure and loan rate no amortization row has a
\* negative balance or interest, and no yearly tax saving is negative.
BalanceNeverNegative ==
    (tenure > 0 /\ loan_rate > 0) =>
        /\ \A m \in 1..Len(sched) :
              sched[m].Balance >= 0 /\ sched[m].Interest >= 0
        /\ ts_result >= 0

\* the last compute_npv call was a zero-growth call in a zero-inflation,
\* zero-tax run
ZeroScenario ==
    /\ Called
    /\ arg_hg = 0 /\ arg_rg = 0
    /\ inflation = 0
    /\ tax_rate = 0

Undiscounted == b = SumSeq(cf_buy) /\ r = SumSeq(cf_rent)

\* C5 as stated: in a zero-growth, zero-inflation, zero-tax scenario both
\* NPVs equal the plain sum of their series, whatever the nominal discount
\* rate.
ZeroScenarioUndiscounted == ZeroScenario => Undiscounted

\* C5 as amended: ... provided the nominal discount rate is zero as well,
\* so that the real discount rate is zero.
ZeroRateUndiscounted == (ZeroScenario /\ disc = 0) => Undiscounted

ZeroRateScenarioSwept == ZeroScenario /\ disc = 0 /\ pc = "done"

\* every house growth a run can pass to compute_npv
GrowthArgs ==
    {house_growth - 3, house_growth, house_growth + 3} \cup SliderValues

\* NPV-buy does not fall and NPV-rent does not move as hg grows within S
MonotoneOn(S) ==
    LET res == [h \in S |-> compute_npv(h, rent_growth, sched, exit_year)]
    IN  \A h1, h2 \in S :
            h1 <= h2 => (res[h1][1] <= res[h2][1] /\ res[h1][2] = res[h2][2])

\* C6 as stated: for any hg1 <= hg2 the inputs allow, compute_npv(hg2, rg)
\* returns an NPV-buy not smaller than compute_npv(hg1, rg) and the same
\* NPV-rent.
NpvBuyMonotoneInGrowth == pc = "slider" => MonotoneOn(GrowthArgs)

\* C6 as amended: ... for hg1 <= hg2 with hg1 >= -100, a non-negative price,
\* a sell commission of at most 100 % and positive discount and inflation
\* factors.
NpvBuyMonotoneAboveMinus100 ==
    (/\ pc = "slider"
     /\ price >= 0
     /\ sell_commission <= 100
     /\ OnePlusPct(disc) > 0
     /\ OnePlusPct(inflation) > 0)
        => MonotoneOn({h \in GrowthArgs : h >= -100})

GrowthRaisesNpvBuy ==
    /\ pc = "slider"
    /\ \E h1, h2 \in {h \in GrowthArgs : h >= -100} :
          /\ h1 < h2
          /\ compute_npv(h1, rent_growth, sched, exit_year)[1]
               < compute_npv(h2, rent_growth, sched, exit_year)[1]

\* C7: every row has interest + principal = EMI, balance = the balance
\* before (the loan amount before month 1) - principal, and equity +
\* balance = house price; the loop emits months 1..horizon*12.
RowRecurrence ==
    /\ \A m \in 1..Len(sched) :
          LET row == sched[m]
              before == IF m = 1 THEN loan_amt ELSE sched[m - 1].Balance
          IN  /\ row.Year = m
              /\ row.Interest + row.Principal = emi
              /\ row.Balance = before - row.Principal
              /\ row.Equity + row.Balance = price
    /\ pc = "scenarios" => Len(sched) = exit_year * MonthsPerYear

ScheduleBuilt ==
    /\ pc = "scenarios"
    /\ tenure = DefaultTenure
    /\ Len(sched) = exit_year * MonthsPerYear
    /\ sched[Len(sched)].Principal > sched[1].Principal

\* C9: for non-negative amounts, caps and rate the saving is
\* (min(i, ic) + min(p, pc)) * t/100 of the call's own amounts; it does not
\* fall as t grows and does not move when i grows beyond ic or p beyond pc.
TaxSavingCapped ==
    (/\ pc = "taxed"
     /\ ts_interest >= 0 /\ ts_principal >= 0
     /\ interest_deduction >= 0 /\ principal_deduction >= 0
     /\ tax_rate >= 0)
        => /\ ts_result
                = (((IF ts_interest <= interest_deduction
                     THEN ts_interest ELSE interest_deduction)
                    + (IF ts_principal <= principal_deduction
                       THEN ts_principal ELSE principal_deduction))
                   * tax_rate) \div 100
           /\ \A t \in TaxRates :
                 t >= tax_rate =>
                     TaxSavingAt(ts_interest, ts_principal, interest_deduction,
                                 principal_deduction, t) >= ts_result
           /\ \A more \in TaxAmounts :
                 /\ ts_interest >= interest_deduction
                      => tax_saving(ts_interest + more, ts_principal) = ts_result
                 /\ ts_principal >= principal_deduction
                      => tax_saving(ts_interest, ts_principal + more) = ts_result

TaxSavingSaturated ==
    /\ pc = "taxed"
    /\ ts_interest > interest_deduction
    /\ ts_principal < principal_deduction
    /\ tax_rate > 0
    /\ ts_result > 0

====
